---- MODULE Spec2Model ----
(***************************************************************************)
(* Model of src/proxy/stream.rs: ProxyTcpStream::connect (direct or via an *)
(* HTTP CONNECT proxy, with the proxy -> direct fallback), the handshake   *)
(* write (write_proxy_connect) and the resumable validator of the proxy's  *)
(* reply (ConnectResponse::poll).  Bytes are the integers 0..255.          *)
(*                                                                         *)
(* The connected socket is modelled by what its peer sends (wire), how     *)
(* much of it has arrived (avail), whether the peer has closed (eof) and   *)
(* the socket's read cursor (pos); written is what was sent to the peer.   *)
(***************************************************************************)
EXTENDS Integers, Sequences, FiniteSets, TLC

VARIABLES
    proxy,          \* connect's argument proxy: "None" or "Some"
    addr,           \* connect's argument addr: Tunnel {remote_host, remote_port}
    wire,           \* the bytes the peer of the connected socket sends
    pc,             \* position of the connect pipeline
    is_proxied,     \* ProxyTcpStream.is_proxied
    stream,         \* ConnectResponse.stream: "None" or "Some"
    status,         \* ConnectResponse.status
    handed,         \* TRUE when a stream handle was returned to the caller
    err,            \* the error the operation ended with, or "none"
    written,        \* bytes written to the socket so far
    wpos,           \* write_all's position in connect_string
    avail,          \* number of bytes of wire that arrived at the socket
    eof,            \* TRUE when the peer closed after sending wire
    pos,            \* the socket's read cursor: bytes of wire taken so far
    got,            \* bytes the caller read from the returned stream
    proxyAttempts,  \* number of tcp_connect calls to the proxy
    directAttempts, \* number of tcp_connect calls to the target
    log,            \* log events emitted so far
    statusBuf,      \* the 12 bytes the status read delivered (<<>> before)
    statusEnd,      \* the read cursor right after the status read (-1 before)
    dest,           \* the bytes the target sends on a direct connection
    future,         \* the future connect returned: "alive" or "dropped"
    owners,         \* strong count of the Arc<TcpStream> (0 before and after)
    sock,           \* the TcpStream: "none", "open" or "closed"
    handles,        \* is_proxied of each ProxyTcpStream the caller holds
    shut,           \* directions of the socket that were shut down
    sent,           \* bytes the caller wrote through the returned stream
    again           \* outcome of a poll after completion, "none" before it

\* the state of the caller's side of the returned stream
callerVars == <<handles, shut, sent, again>>

\* the state of the socket's ownership
ownerVars == <<future, owners, sock>>

vars == <<proxy, addr, wire, pc, is_proxied, stream, status, handed, err,
          written, wpos, avail, eof, pos, got, proxyAttempts, directAttempts,
          log, statusBuf, statusEnd, dest, future, owners, sock, handles,
          shut, sent, again>>

(***************************************************************************)
(* Bounds of the model.                                                    *)
(***************************************************************************)
\* longest header block (bytes after the 12-byte prefix) in ScanWires
MaxTail == 5
\* a write on the socket accepts the whole rest or this many bytes
WriteChunk == 9
\* largest buffer the caller reads with
MaxRead == 2
\* most ProxyTcpStream handles of one socket alive at a time
MaxHandles == 2
\* most bytes the caller writes through the returned stream
MaxSent == 1

(***************************************************************************)
(* Bytes.                                                                  *)
(***************************************************************************)
CR == 13
LF == 10
StatusLen == 12

Min(a, b) == IF a < b THEN a ELSE b

SeqsUpTo(S, n) == UNION {[1..k -> S] : k \in 0..n}

(***************************************************************************)
(* std::str::from_utf8: the well-formed byte sequences of UTF-8.           *)
(***************************************************************************)
IsCont(b) == b >= 128 /\ b <= 191

\* number of bytes of the well-formed character starting at s[i], 0 if none
CharLen(s, i) ==
    LET n == Len(s)
        b0 == s[i]
        c(k) == i + k <= n /\ IsCont(s[i + k])
    IN  IF b0 <= 127 THEN 1
        ELSE IF b0 >= 194 /\ b0 <= 223
             THEN IF c(1) THEN 2 ELSE 0
        ELSE IF b0 = 224
             THEN IF c(1) /\ s[i + 1] >= 160 /\ c(2) THEN 3 ELSE 0
        ELSE IF b0 = 237
             THEN IF c(1) /\ s[i + 1] <= 159 /\ c(2) THEN 3 ELSE 0
        ELSE IF b0 >= 225 /\ b0 <= 239
             THEN IF c(1) /\ c(2) THEN 3 ELSE 0
        ELSE IF b0 = 240
             THEN IF c(1) /\ s[i + 1] >= 144 /\ c(2) /\ c(3) THEN 4 ELSE 0
        ELSE IF b0 = 244
             THEN IF c(1) /\ s[i + 1] <= 143 /\ c(2) /\ c(3) THEN 4 ELSE 0
        ELSE IF b0 >= 241 /\ b0 <= 243
             THEN IF c(1) /\ c(2) /\ c(3) THEN 4 ELSE 0
        ELSE 0

RECURSIVE Utf8From(_, _)
Utf8From(s, i) ==
    IF i > Len(s) THEN TRUE
    ELSE LET k == CharLen(s, i)
         IN  k > 0 /\ Utf8From(s, i + k)

from_utf8(s) == Utf8From(s, 1)

\* str::is_char_boundary at byte offset i (0-based) of a valid string s
is_char_boundary(s, i) ==
    i = 0 \/ i = Len(s) \/ (i < Len(s) /\ ~IsCont(s[i + 1]))

(***************************************************************************)
(* str::parse::<u16>: an optional '+', then one or more ASCII digits, the  *)
(* value at most 65535.  -1 stands for Err.                                *)
(***************************************************************************)
IsDigit(b) == b >= 48 /\ b <= 57

RECURSIVE DigitsValue(_, _)
DigitsValue(d, acc) ==
    IF d = <<>> THEN acc
    ELSE IF ~IsDigit(Head(d)) THEN -1
    ELSE IF acc * 10 + (Head(d) - 48) > 65535 THEN -1
    ELSE DigitsValue(Tail(d), acc * 10 + (Head(d) - 48))

parse_u16(s) ==
    LET digits == IF s # <<>> /\ s[1] = 43 THEN Tail(s) ELSE s
    IN  IF digits = <<>> THEN -1 ELSE DigitsValue(digits, 0)

(***************************************************************************)
(* The socket's read side.  std::io::Read::read_exact on the non-blocking  *)
(* socket: read() delivers what has arrived, up to the buffer's length;    *)
(* with the buffer not yet full the next read() answers WouldBlock, or 0   *)
(* (UnexpectedEof) once the peer has closed.  The bytes taken before a     *)
(* WouldBlock went into the caller's buffer and are gone from the socket.  *)
(***************************************************************************)
\* faulty variant: the end of the stream is waited out like an empty socket
read_exact_blocks_at_eof(n, p, av, closed) ==
    IF av - p >= n THEN [res |-> "Ok", taken |-> n]
    ELSE [res |-> "WouldBlock", taken |-> av - p]

read_exact(n, p, av, closed) ==
    IF av - p >= n THEN [res |-> "Ok", taken |-> n]
    ELSE IF closed THEN [res |-> "UnexpectedEof", taken |-> av - p]
    ELSE [res |-> "WouldBlock", taken |-> av - p]

(***************************************************************************)
(* ConnectResponse::poll.                                                  *)
(***************************************************************************)
Cursor == {"Started", "HeaderOk", "FirstCr", "FirstLf", "SecondCr", "Done"}

other_error(text) == text

\* faulty variant: 300 passes the range check
not_2xx_above_300(n) == n < 200 \/ n > 300

\* the status range check of line 61
not_2xx(n) == n < 200 \/ n >= 300

\* faulty variant: a CR that no LF follows is skipped like header content
match_byte_lenient(st, b) ==
    CASE st = "HeaderOk" /\ b = CR -> [next |-> "FirstCr"]
      [] st = "FirstCr"  /\ b = LF -> [next |-> "FirstLf"]
      [] st = "FirstCr"  /\ b # LF -> [next |-> "HeaderOk"]
      [] st = "FirstLf"  /\ b = CR -> [next |-> "SecondCr"]
      [] st = "FirstLf"  /\ b # CR -> [next |-> "HeaderOk"]
      [] st = "SecondCr" /\ b = LF -> [next |-> "break"]
      [] st = "SecondCr" /\ b # LF -> [next |-> "HeaderOk"]
      [] st = "HeaderOk" /\ b # CR -> [next |-> "HeaderOk"]
      [] OTHER -> [err |-> other_error("Invalid Header")]

\* faulty variant: a bare LF ends a line like CR LF
match_byte_bare_lf(st, b) ==
    CASE st = "HeaderOk" /\ b = CR -> [next |-> "FirstCr"]
      [] st = "HeaderOk" /\ b = LF -> [next |-> "FirstLf"]
      [] st = "FirstCr"  /\ b = LF -> [next |-> "FirstLf"]
      [] st = "FirstCr"  /\ b # LF -> [err |-> other_error("Invalid end of line")]
      [] st = "FirstLf"  /\ b = CR -> [next |-> "SecondCr"]
      [] st = "FirstLf"  /\ b # CR -> [next |-> "HeaderOk"]
      [] st = "SecondCr" /\ b = LF -> [next |-> "break"]
      [] st = "SecondCr" /\ b # LF -> [err |-> other_error("Invalid end of line")]
      [] st = "HeaderOk" /\ b # CR -> [next |-> "HeaderOk"]
      [] OTHER -> [err |-> other_error("Invalid Header")]

\* the match on (status, byte) of the scan loop: the next cursor, "break",
\* or the error returned
match_byte(st, b) ==
    CASE st = "HeaderOk" /\ b = CR -> [next |-> "FirstCr"]
      [] st = "FirstCr"  /\ b = LF -> [next |-> "FirstLf"]
      [] st = "FirstCr"  /\ b # LF -> [err |-> other_error("Invalid end of line")]
      [] st = "FirstLf"  /\ b = CR -> [next |-> "SecondCr"]
      [] st = "FirstLf"  /\ b # CR -> [next |-> "HeaderOk"]
      [] st = "SecondCr" /\ b = LF -> [next |-> "break"]
      [] st = "SecondCr" /\ b # LF -> [err |-> other_error("Invalid end of line")]
      [] st = "HeaderOk" /\ b # CR -> [next |-> "HeaderOk"]
      [] OTHER -> [err |-> other_error("Invalid Header")]

PollResult(st, p, out, e, buf) ==
    [status |-> st, pos |-> p, out |-> out, err |-> e, buf |-> buf]

\* the loop of lines 68-89, from cursor st with the socket's cursor at p
RECURSIVE header_scan(_, _, _, _, _, _)
header_scan(st, p, av, closed, w, buf) ==
    LET r == read_exact(1, p, av, closed)
    IN  IF r.res = "WouldBlock" THEN PollResult(st, p, "NotReady", "none", buf)
        ELSE IF r.res # "Ok" THEN PollResult(st, p, "Err", r.res, buf)
        ELSE LET m == match_byte(st, w[p + 1])
             IN  IF "err" \in DOMAIN m
                     THEN PollResult(st, p + 1, "Err", m.err, buf)
                 ELSE IF m.next = "break"
                     THEN PollResult("Done", p + 1, "Ok", "none", buf)
                 ELSE header_scan(m.next, p + 1, av, closed, w, buf)

\* faulty variant: the scan is entered with the cursor still Started
status_read_keeps_started(p, av, closed, w) ==
    LET r   == read_exact(StatusLen, p, av, closed)
        q   == p + r.taken
        buf == SubSeq(w, p + 1, p + StatusLen)
        n   == parse_u16(SubSeq(buf, 10, 12))
    IN  IF r.res = "WouldBlock"
            THEN PollResult("Started", q, "NotReady", "none", <<>>)
        ELSE IF r.res # "Ok"
            THEN PollResult("Started", q, "Err", r.res, <<>>)
        ELSE IF ~from_utf8(buf)
            THEN PollResult("Started", q, "Err",
                            other_error("Invalid status - not UTF8"), buf)
        ELSE IF ~is_char_boundary(buf, 9)
            THEN PollResult("Started", q, "Panic", "none", buf)
        ELSE IF n = -1
            THEN PollResult("Started", q, "Err",
                            other_error("Invalid status - not number"), buf)
        ELSE IF not_2xx(n)
            THEN PollResult("Started", q, "Err",
                            other_error("Invalid status - not 2xx"), buf)
        ELSE header_scan("Started", q, av, closed, w, buf)

\* lines 49-66: the 12-byte status read and its checks, then the scan
status_read(p, av, closed, w) ==
    LET r   == read_exact(StatusLen, p, av, closed)
        q   == p + r.taken
        buf == SubSeq(w, p + 1, p + StatusLen)
        n   == parse_u16(SubSeq(buf, 10, 12))
    IN  IF r.res = "WouldBlock"
            THEN PollResult("Started", q, "NotReady", "none", <<>>)
        ELSE IF r.res # "Ok"
            THEN PollResult("Started", q, "Err", r.res, <<>>)
        ELSE IF ~from_utf8(buf)
            THEN PollResult("Started", q, "Err",
                            other_error("Invalid status - not UTF8"), buf)
        ELSE IF ~is_char_boundary(buf, 9)
            THEN PollResult("Started", q, "Panic", "none", buf)
        ELSE IF n = -1
            THEN PollResult("Started", q, "Err",
                            other_error("Invalid status - not number"), buf)
        ELSE IF not_2xx(n)
            THEN PollResult("Started", q, "Err",
                            other_error("Invalid status - not 2xx"), buf)
        ELSE header_scan("HeaderOk", q, av, closed, w, buf)

\* faulty variant: the validator runs whether or not the stream is proxied
poll_any_stream(strm, proxied, st, p, av, closed, w) ==
    IF strm = "Some"
        THEN IF st = "Started"
                 THEN status_read(p, av, closed, w)
                 ELSE header_scan(st, p, av, closed, w, <<>>)
        ELSE PollResult(st, p, "Panic", "none", <<>>)

poll(strm, proxied, st, p, av, closed, w) ==
    IF strm = "Some" /\ proxied
        THEN IF st = "Started"
                 THEN status_read(p, av, closed, w)
                 ELSE header_scan(st, p, av, closed, w, <<>>)
    ELSE IF strm = "None"
        THEN PollResult("Done", p, "Panic", "none", <<>>)
    ELSE PollResult("Done", p, "Ok", "none", <<>>)

(***************************************************************************)
(* write_proxy_connect: the request formatted by                           *)
(* format!("CONNECT {}:{} HTTP/1.1\r\n\r\n", remote_host, remote_port).    *)
(***************************************************************************)
\* faulty variant: the digits come out least significant first
RECURSIVE fmt_u16_reversed(_)
fmt_u16_reversed(n) ==
    IF n < 10 THEN <<48 + n>>
    ELSE <<48 + (n % 10)>> \o fmt_u16_reversed(n \div 10)

\* Display of an unsigned integer: its decimal digits, no leading zero
RECURSIVE fmt_u16(_)
fmt_u16(n) ==
    IF n < 10 THEN <<48 + n>>
    ELSE Append(fmt_u16(n \div 10), 48 + (n % 10))

\* "CONNECT " and " HTTP/1.1\r\n\r\n"
ConnectVerb == <<67, 79, 78, 78, 69, 67, 84, 32>>
ConnectTrailer == <<32, 72, 84, 84, 80, 47, 49, 46, 49, CR, LF, CR, LF>>

connect_string(proxied, tun) ==
    IF proxied
        THEN ConnectVerb \o tun.remote_host \o <<58>>
             \o fmt_u16(tun.remote_port) \o ConnectTrailer
        ELSE <<>>

(***************************************************************************)
(* The inputs: connect's arguments and what the peer sends.                *)
(***************************************************************************)
\* "h":80, "a.b":65535, "":0
Targets ==
    { [remote_host |-> <<104>>, remote_port |-> 80],
      [remote_host |-> <<97, 46, 98>>, remote_port |-> 65535],
      [remote_host |-> <<>>, remote_port |-> 0] }

OneTarget == { [remote_host |-> <<104>>, remote_port |-> 80] }

\* "HTTP/1.1 ", "HTTP/1.1" followed by the lead byte of a two-byte
\* character, and a head that is not UTF-8
HeadAscii == <<72, 84, 84, 80, 47, 49, 46, 49, 32>>
HeadLead == <<72, 84, 84, 80, 47, 49, 46, 49, 195>>
HeadBad == <<255, 84, 84, 80, 47, 49, 46, 49, 32>>
BlankLine == <<CR, LF, CR, LF>>

\* '0' '1' '2' '3' '9' '+' 'a' and a continuation byte
CodeBytes == {48, 49, 50, 51, 57, 43, 97, 169}
\* CR, LF and 'x'
ScanBytes == {CR, LF, 120}

\* '2' '0' and a continuation byte
LeadCodeBytes == {50, 48, 169}

\* responses "HTTP/1.1 ccc\r\n\r\n" with every status field ccc over
\* CodeBytes, and bare prefixes whose ninth byte is not ASCII
StatusWires ==
    { HeadAscii \o c \o BlankLine : c \in [1..3 -> CodeBytes] }
    \cup { h \o c : h \in {HeadLead, HeadBad}, c \in [1..3 -> LeadCodeBytes] }

\* the end of the status line, then one header line "x" and two header
\* lines "x" and LF "x", each ended by CR LF, then the blank line
HeaderBlocks ==
    { <<CR, LF, 120, CR, LF, CR, LF>>,
      <<CR, LF, 120, CR, LF, LF, 120, CR, LF, CR, LF>> }

\* responses "HTTP/1.1 200" followed by every header block over ScanBytes
\* and by the blocks of HeaderBlocks
ScanWires ==
    { HeadAscii \o <<50, 48, 48>> \o t :
          t \in SeqsUpTo(ScanBytes, MaxTail) \cup HeaderBlocks }

\* a few whole exchanges: 200 and 404 replies with a payload, a reply that
\* is no response at all, and a proxy that sends nothing
Wires ==
    { HeadAscii \o c \o h \o BlankLine \o <<80, 81>> :
          c \in {<<50, 48, 48>>, <<52, 48, 52>>},
          h \in {<<>>, <<120, CR, LF>>} }
    \cup { <<80, 81>>, <<>> }

\* the complete responses "HTTP/1.1 200\r\n\r\n" and "HTTP/1.1 299\r\n\r\n"
LiveWires ==
    { HeadAscii \o c \o BlankLine : c \in {<<50, 48, 48>>, <<50, 57, 57>>} }

\* what the target sends on a direct connection: "PQ", or nothing
Payloads == { <<80, 81>>, <<>> }
OnePayload == { <<80, 81>> }

InitWith(T, W, D) ==
    /\ proxy \in {"None", "Some"}
    /\ addr \in T
    /\ wire \in (IF proxy = "None" THEN {<<>>} ELSE W)
    /\ dest \in D
    /\ future = "alive"
    /\ owners = 0
    /\ sock = "none"
    /\ handles = <<>>
    /\ shut = {}
    /\ sent = <<>>
    /\ again = "none"
    /\ pc = "start"
    /\ is_proxied = FALSE
    /\ stream = "None"
    /\ status = "Started"
    /\ handed = FALSE
    /\ err = "none"
    /\ written = <<>>
    /\ wpos = 0
    /\ avail = 0
    /\ eof = FALSE
    /\ pos = 0
    /\ got = <<>>
    /\ proxyAttempts = 0
    /\ directAttempts = 0
    /\ log = <<>>
    /\ statusBuf = <<>>
    /\ statusEnd = -1

Init == InitWith(Targets, Wires, Payloads)
InitStatus == InitWith(OneTarget, StatusWires, OnePayload)
InitScan == InitWith(OneTarget, ScanWires, OnePayload)
InitLive == InitWith(OneTarget, LiveWires, OnePayload)

(***************************************************************************)
(* ProxyTcpStream::connect and the stages of the future it returns.        *)
(***************************************************************************)
\* connect(addr, proxy, handle): the first connection attempt is started
connect ==
    /\ pc = "start"
    /\ IF proxy = "None"
           THEN /\ log' = Append(log, "debug: connecting directly")
                /\ directAttempts' = directAttempts + 1
                /\ proxyAttempts' = proxyAttempts
                /\ pc' = "connect_direct"
           ELSE /\ log' = Append(log, "debug: connecting via proxy")
                /\ proxyAttempts' = proxyAttempts + 1
                /\ directAttempts' = directAttempts
                /\ pc' = "connect_proxy"
    /\ sock' = "connecting"
    /\ UNCHANGED <<proxy, addr, wire, is_proxied, stream, status, handed, err,
                   written, wpos, avail, eof, pos, got, statusBuf, statusEnd,
                   dest, future, owners, callerVars>>

\* tcp_connect to the proxy resolved: .map(|s| (s, true)), the wrapper is
\* built around Arc::new(stream) and write_proxy_connect is entered
proxy_connected ==
    /\ pc = "connect_proxy"
    /\ future = "alive"
    /\ is_proxied' = TRUE
    /\ owners' = 1
    /\ sock' = "open"
    /\ wpos' = 0
    /\ pc' = "write"
    /\ UNCHANGED <<proxy, addr, wire, stream, status, handed, err, written,
                   avail, eof, pos, got, proxyAttempts, directAttempts, log,
                   statusBuf, statusEnd, dest, future, callerVars>>

\* tcp_connect to the proxy failed: the or_else closure warns and starts
\* the direct attempt
proxy_failed ==
    /\ pc = "connect_proxy"
    /\ future = "alive"
    /\ log' = Append(log, "warn: proxy connection failed, trying direct")
    /\ directAttempts' = directAttempts + 1
    /\ pc' = "connect_direct"
    /\ UNCHANGED <<proxy, addr, wire, is_proxied, stream, status, handed, err,
                   written, wpos, avail, eof, pos, got, proxyAttempts,
                   statusBuf, statusEnd, dest, ownerVars, callerVars>>

\* faulty variant: the direct socket is marked as proxied
direct_connected_as_proxied ==
    /\ pc = "connect_direct"
    /\ future = "alive"
    /\ is_proxied' = TRUE
    /\ owners' = 1
    /\ sock' = "open"
    /\ wire' = dest
    /\ wpos' = 0
    /\ pc' = "write"
    /\ UNCHANGED <<proxy, addr, stream, status, handed, err, written,
                   avail, eof, pos, got, proxyAttempts, directAttempts, log,
                   statusBuf, statusEnd, dest, future, callerVars>>

\* tcp_connect to the target resolved: .map(|s| (s, false)); the peer of
\* the socket is the target
direct_connected ==
    /\ pc = "connect_direct"
    /\ future = "alive"
    /\ is_proxied' = FALSE
    /\ owners' = 1
    /\ sock' = "open"
    /\ wire' = dest
    /\ wpos' = 0
    /\ pc' = "write"
    /\ UNCHANGED <<proxy, addr, stream, status, handed, err, written,
                   avail, eof, pos, got, proxyAttempts, directAttempts, log,
                   statusBuf, statusEnd, dest, future, callerVars>>

\* faulty variant: a failed direct attempt goes back to the proxy
direct_failed_retries_proxy ==
    /\ pc = "connect_direct"
    /\ future = "alive"
    /\ pc' = "connect_proxy"
    /\ proxyAttempts' = proxyAttempts + 1
    /\ UNCHANGED <<proxy, addr, wire, is_proxied, stream, status, handed, err,
                   written, wpos, avail, eof, pos, got, directAttempts, log,
                   statusBuf, statusEnd, dest, ownerVars, callerVars>>

\* tcp_connect to the target failed: the error ends the pipeline
direct_failed ==
    /\ pc = "connect_direct"
    /\ future = "alive"
    /\ pc' = "failed"
    /\ err' = "connect"
    /\ sock' = "closed"
    /\ UNCHANGED <<proxy, addr, wire, is_proxied, stream, status, handed,
                   written, wpos, avail, eof, pos, got, proxyAttempts,
                   directAttempts, log, statusBuf, statusEnd, dest, future,
                   owners, callerVars>>

\* what one poll of write_all can meet with rest bytes left to write: the
\* socket takes them all, takes WriteChunk of them and then would block, or
\* fails (an empty buffer is never handed to write)
WriteOutcomes(rest) ==
    {"all"} \cup (IF rest > WriteChunk THEN {"part"} ELSE {})
            \cup (IF rest > 0 THEN {"error"} ELSE {})

\* faulty variant: the response is awaited as soon as one write was accepted
write_proxy_connect_once ==
    /\ pc = "write"
    /\ future = "alive"
    /\ LET s    == connect_string(is_proxied, addr)
           rest == Len(s) - wpos
       IN  \E o \in WriteOutcomes(rest) :
             LET k == IF o = "all" THEN rest
                      ELSE IF o = "part" THEN WriteChunk ELSE 0
             IN  /\ written' = written \o SubSeq(s, wpos + 1, wpos + k)
                 /\ wpos' = wpos + k
                 /\ pc' = IF o = "error" THEN "failed" ELSE "response"
                 /\ err' = IF o = "error" THEN "write" ELSE err
                 /\ stream' = IF o = "error" THEN stream ELSE "Some"
                 /\ status' = IF o = "error" THEN status ELSE "Started"
                 /\ owners' = IF o = "error" THEN owners - 1 ELSE owners
                 /\ sock' = IF o = "error" /\ owners = 1 THEN "closed" ELSE sock
    /\ UNCHANGED <<proxy, addr, wire, is_proxied, handed, avail, eof, pos,
                   got, proxyAttempts, directAttempts, log, statusBuf,
                   statusEnd, dest, future, callerVars>>

\* one poll of tokio_io::io::write_all(self, connect_string); on completion
\* read_proxy_response builds the ConnectResponse, on an error the future
\* that owns the stream is dropped
write_proxy_connect ==
    /\ pc = "write"
    /\ future = "alive"
    /\ LET s    == connect_string(is_proxied, addr)
           rest == Len(s) - wpos
       IN  \E o \in WriteOutcomes(rest) :
             LET k == IF o = "all" THEN rest
                      ELSE IF o = "part" THEN WriteChunk ELSE 0
             IN  /\ written' = written \o SubSeq(s, wpos + 1, wpos + k)
                 /\ wpos' = wpos + k
                 /\ pc' = IF o = "all" THEN "response"
                          ELSE IF o = "part" THEN "write" ELSE "failed"
                 /\ err' = IF o = "error" THEN "write" ELSE err
                 /\ stream' = IF o = "all" THEN "Some" ELSE stream
                 /\ status' = IF o = "all" THEN "Started" ELSE status
                 /\ owners' = IF o = "error" THEN owners - 1 ELSE owners
                 /\ sock' = IF o = "error" /\ owners = 1 THEN "closed" ELSE sock
    /\ UNCHANGED <<proxy, addr, wire, is_proxied, handed, avail, eof, pos,
                   got, proxyAttempts, directAttempts, log, statusBuf,
                   statusEnd, dest, future, callerVars>>

\* one poll of the ConnectResponse; Ok moves the stream out to the caller
response_poll ==
    /\ pc = "response"
    /\ future = "alive"
    /\ LET r == poll(stream, is_proxied, status, pos, avail, eof, wire)
       IN  /\ status' = r.status
           /\ pos' = r.pos
           /\ statusBuf' = IF r.buf # <<>> THEN r.buf ELSE statusBuf
           /\ statusEnd' = IF r.buf # <<>> THEN pos + StatusLen ELSE statusEnd
           /\ pc' = CASE r.out = "Ok" -> "ready"
                      [] r.out = "Err" -> "failed"
                      [] r.out = "Panic" -> "panicked"
                      [] OTHER -> "response"
           /\ err' = IF r.out = "Err" THEN r.err ELSE err
           /\ stream' = IF r.out = "Ok" THEN "None" ELSE stream
           /\ handed' = (r.out = "Ok")
           /\ handles' = IF r.out = "Ok" THEN <<is_proxied>> ELSE handles
    /\ UNCHANGED <<proxy, addr, wire, is_proxied, written, wpos, avail, eof,
                   got, proxyAttempts, directAttempts, log, dest, ownerVars,
                   shut, sent, again>>

\* the ConnectResponse is polled once more after it returned the stream
poll_again ==
    /\ pc = "ready"
    /\ again = "none"
    /\ LET r == poll(stream, is_proxied, status, pos, avail, eof, wire)
       IN  /\ status' = r.status
           /\ pos' = r.pos
           /\ again' = r.out
    /\ UNCHANGED <<proxy, addr, wire, pc, is_proxied, stream, handed, err,
                   written, wpos, avail, eof, got, proxyAttempts,
                   directAttempts, log, statusBuf, statusEnd, dest, ownerVars,
                   handles, shut, sent>>

\* the pipeline owns the stream: in write_all, or in the ConnectResponse
Holding == future = "alive" /\ (pc = "write" \/ stream = "Some")

\* the future connect returned is dropped before it completed: whatever it
\* owns is dropped with it
drop_future ==
    /\ future = "alive"
    /\ pc \in {"connect_proxy", "connect_direct", "write", "response",
               "failed", "panicked"}
    /\ future' = "dropped"
    /\ owners' = IF Holding THEN owners - 1 ELSE owners
    /\ sock' = IF sock = "connecting" \/ (Holding /\ owners = 1)
                   THEN "closed" ELSE sock
    /\ UNCHANGED <<proxy, addr, wire, pc, is_proxied, stream, status, handed,
                   err, written, wpos, avail, eof, pos, got, proxyAttempts,
                   directAttempts, log, statusBuf, statusEnd, dest,
                   callerVars>>

(***************************************************************************)
(* The peer of the socket.                                                 *)
(***************************************************************************)
Connected == pc \in {"write", "response", "ready"} /\ sock = "open"

\* the next k bytes of wire arrive at the socket
arrive ==
    /\ Connected
    /\ \E k \in 1..(Len(wire) - avail) : avail' = avail + k
    /\ UNCHANGED <<proxy, addr, wire, pc, is_proxied, stream, status, handed,
                   err, written, wpos, eof, pos, got, proxyAttempts,
                   directAttempts, log, statusBuf, statusEnd, dest, ownerVars,
                   callerVars>>

\* the peer closes its side after the last byte of wire
peer_close ==
    /\ Connected
    /\ avail = Len(wire)
    /\ ~eof
    /\ eof' = TRUE
    /\ UNCHANGED <<proxy, addr, wire, pc, is_proxied, stream, status, handed,
                   err, written, wpos, avail, pos, got, proxyAttempts,
                   directAttempts, log, statusBuf, statusEnd, dest, ownerVars,
                   callerVars>>

(***************************************************************************)
(* The caller's handles of the returned stream.                            *)
(***************************************************************************)
Remove(s, i) == SubSeq(s, 1, i - 1) \o SubSeq(s, i + 1, Len(s))

\* Read for ProxyTcpStream: the caller reads into a buffer of n bytes
\* through one of its handles; a socket shut down for reading gives 0 bytes
read ==
    /\ pc = "ready"
    /\ \E h \in 1..Len(handles), n \in 1..MaxRead :
         LET k == IF "Read" \in shut THEN 0 ELSE Min(n, avail - pos)
         IN  /\ k > 0
             /\ got' = got \o SubSeq(wire, pos + 1, pos + k)
             /\ pos' = pos + k
    /\ UNCHANGED <<proxy, addr, wire, pc, is_proxied, stream, status, handed,
                   err, written, wpos, avail, eof, proxyAttempts,
                   directAttempts, log, statusBuf, statusEnd, dest, ownerVars,
                   callerVars>>

\* Write for ProxyTcpStream: the caller writes the byte 'W' through one of
\* its handles; the write fails on a socket shut down for writing.  flush
\* has no effect on a TcpStream.
write ==
    /\ pc = "ready"
    /\ Len(sent) < MaxSent
    /\ \E h \in 1..Len(handles) :
         sent' = IF "Write" \in shut THEN sent ELSE Append(sent, 87)
    /\ UNCHANGED <<proxy, addr, wire, pc, is_proxied, stream, status, handed,
                   err, written, wpos, avail, eof, pos, got, proxyAttempts,
                   directAttempts, log, statusBuf, statusEnd, dest, ownerVars,
                   handles, shut, again>>

\* faulty variant: shutdown closes both directions
shutdown_both ==
    /\ pc = "ready"
    /\ \E h \in 1..Len(handles) : shut' = {"Read", "Write"}
    /\ UNCHANGED <<proxy, addr, wire, pc, is_proxied, stream, status, handed,
                   err, written, wpos, avail, eof, pos, got, proxyAttempts,
                   directAttempts, log, statusBuf, statusEnd, dest, ownerVars,
                   handles, sent, again>>

\* AsyncWrite::shutdown: self.inner.shutdown(Shutdown::Write)
shutdown ==
    /\ pc = "ready"
    /\ \E h \in 1..Len(handles) : shut' = shut \cup {"Write"}
    /\ UNCHANGED <<proxy, addr, wire, pc, is_proxied, stream, status, handed,
                   err, written, wpos, avail, eof, pos, got, proxyAttempts,
                   directAttempts, log, statusBuf, statusEnd, dest, ownerVars,
                   handles, sent, again>>

\* faulty variant: a clone does not carry the flag of its original
clone_unflagged ==
    /\ pc = "ready"
    /\ owners < MaxHandles
    /\ \E h \in 1..Len(handles) : handles' = Append(handles, FALSE)
    /\ owners' = owners + 1
    /\ UNCHANGED <<proxy, addr, wire, pc, is_proxied, stream, status, handed,
                   err, written, wpos, avail, eof, pos, got, proxyAttempts,
                   directAttempts, log, statusBuf, statusEnd, dest, future,
                   sock, shut, sent, again>>

\* #[derive(Clone)]: the Arc is cloned and the flag copied
clone ==
    /\ pc = "ready"
    /\ owners < MaxHandles
    /\ \E h \in 1..Len(handles) : handles' = Append(handles, handles[h])
    /\ owners' = owners + 1
    /\ UNCHANGED <<proxy, addr, wire, pc, is_proxied, stream, status, handed,
                   err, written, wpos, avail, eof, pos, got, proxyAttempts,
                   directAttempts, log, statusBuf, statusEnd, dest, future,
                   sock, shut, sent, again>>

\* faulty variant: dropping any handle closes the socket
drop_handle_closes ==
    /\ pc = "ready"
    /\ \E h \in 1..Len(handles) : handles' = Remove(handles, h)
    /\ owners' = owners - 1
    /\ sock' = "closed"
    /\ UNCHANGED <<proxy, addr, wire, pc, is_proxied, stream, status, handed,
                   err, written, wpos, avail, eof, pos, got, proxyAttempts,
                   directAttempts, log, statusBuf, statusEnd, dest, future,
                   shut, sent, again>>

\* a handle is dropped: the Arc releases the TcpStream with its last owner
drop_handle ==
    /\ pc = "ready"
    /\ \E h \in 1..Len(handles) : handles' = Remove(handles, h)
    /\ owners' = owners - 1
    /\ sock' = IF owners = 1 THEN "closed" ELSE sock
    /\ UNCHANGED <<proxy, addr, wire, pc, is_proxied, stream, status, handed,
                   err, written, wpos, avail, eof, pos, got, proxyAttempts,
                   directAttempts, log, statusBuf, statusEnd, dest, future,
                   shut, sent, again>>

Next ==
    \/ connect
    \/ proxy_connected
    \/ proxy_failed
    \/ direct_connected
    \/ direct_failed
    \/ write_proxy_connect
    \/ response_poll
    \/ poll_again
    \/ drop_future
    \/ arrive
    \/ peer_close
    \/ read
    \/ write
    \/ shutdown
    \/ clone
    \/ drop_handle

Spec == Init /\ [][Next]_vars
SpecStatus == InitStatus /\ [][Next]_vars
SpecScan == InitScan /\ [][Next]_vars

\* the task is polled again while its future is pending
SpecLive ==
    /\ InitLive /\ [][Next]_vars
    /\ WF_vars(write_proxy_connect)
    /\ WF_vars(response_poll)

(***************************************************************************)
(* Vocabulary of the properties.                                           *)
(***************************************************************************)
\* bytes of wire the validator took from the socket (the caller's reads
\* come after it)
Consumed == pos - Len(got)

\* the validator ran and ended: with a stream, its own error, or a panic
ValidatorEnded ==
    \/ pc \in {"ready", "panicked"}
    \/ pc = "failed" /\ err \notin {"connect", "write"}

\* the three-digit status code at offsets 9..11 of a response, -1 if the
\* three bytes are not all digits
CodeOf(w) ==
    IF Len(w) >= StatusLen /\ \A i \in 10..12 : IsDigit(w[i])
        THEN (w[10] - 48) * 100 + (w[11] - 48) * 10 + (w[12] - 48)
        ELSE -1

IsBlankAt(w, e) ==
    /\ e - 3 > StatusLen
    /\ e <= Len(w)
    /\ w[e - 3] = CR /\ w[e - 2] = LF /\ w[e - 1] = CR /\ w[e] = LF

\* where the first CR LF CR LF after the prefix ends, 0 if there is none
FirstBlank(w) ==
    IF \E e \in 1..Len(w) : IsBlankAt(w, e)
        THEN CHOOSE e \in 1..Len(w) :
                 IsBlankAt(w, e) /\ \A f \in 1..(e - 1) : ~IsBlankAt(w, f)
        ELSE 0

\* a reply with a 2xx text prefix, then header lines each ended by CR LF,
\* then the blank line
WellFormedReply(w) ==
    /\ Len(w) >= StatusLen
    /\ from_utf8(SubSeq(w, 1, StatusLen))
    /\ CodeOf(w) >= 200 /\ CodeOf(w) < 300
    /\ FirstBlank(w) # 0
    /\ \A i \in (StatusLen + 1)..(FirstBlank(w) - 4) :
           w[i] = CR => w[i + 1] = LF

\* C1: for every proxy reply with a 2xx 12-byte prefix followed by header
\* lines and the first CR LF CR LF, the validator does not fail, has
\* consumed exactly the bytes up to and including that CR LF CR LF when it
\* hands the stream over, never takes a byte beyond it, and the caller's
\* first read returns the first payload byte.
C1_ExactConsumption ==
    (is_proxied /\ WellFormedReply(wire)) =>
        /\ ~(ValidatorEnded /\ pc # "ready")
        /\ Consumed <= FirstBlank(wire)
        /\ pc = "ready" => Consumed = FirstBlank(wire)
        /\ got # <<>> => got[1] = wire[FirstBlank(wire) + 1]

\* the validator run on the whole reply in one piece, the peer's close after it
OnePiece(w) == poll("Some", TRUE, "Started", 0, Len(w), TRUE, w)

\* C2: however the reply is split into arrival chunks, once the validator
\* has ended its outcome (stream, which error, or abnormal end) and the
\* number of bytes it consumed are those of the run on the reply in one piece.
C2_ChunkingExact ==
    (is_proxied /\ ValidatorEnded) =>
        LET o == OnePiece(wire)
        IN  /\ (pc = "ready") = (o.out = "Ok")
            /\ (pc = "panicked") = (o.out = "Panic")
            /\ pc = "failed" => (o.out = "Err" /\ o.err = err)
            /\ Consumed = o.pos

\* the or_else closure of connect ran: the proxy attempt failed
FallbackTaken ==
    \E i \in 1..Len(log) : log[i] = "warn: proxy connection failed, trying direct"

\* C3: after a failed proxy attempt there is one direct attempt; once it
\* succeeded the operation cannot fail, the stream has is_proxied = FALSE,
\* nothing was written to the direct socket and the validator read nothing.
C3_FallbackDirect ==
    FallbackTaken =>
        /\ proxy = "Some" /\ proxyAttempts = 1 /\ directAttempts = 1
        /\ pc \in {"connect_direct", "write", "response", "ready", "failed"}
        /\ pc = "failed" => err = "connect"
        /\ pc \in {"write", "response", "ready"} =>
               (~is_proxied /\ written = <<>> /\ Consumed = 0)
        /\ pc = "ready" => (handed /\ status = "Done")

C3_Witness ==
    FallbackTaken /\ pc = "ready" /\ handed /\ ~is_proxied /\ got # <<>>

C4_Attempts ==
    /\ proxyAttempts <= 1
    /\ directAttempts <= 1
    /\ proxy = "None" => proxyAttempts = 0

C4_Step ==
    /\ proxyAttempts' > proxyAttempts => (pc = "start" /\ proxy = "Some")
    /\ directAttempts' > directAttempts =>
           \/ pc = "start" /\ proxy = "None"
           \/ pc = "connect_proxy" /\ proxy = "Some" /\ log' # log
    /\ pc \in {"write", "response", "ready"} =>
           pc' \in {"write", "response", "ready", "failed", "panicked"}
    /\ pc \in {"failed", "panicked"} =>
           (pc' = pc /\ err' = err /\ proxyAttempts' = proxyAttempts
                     /\ directAttempts' = directAttempts)

\* C4: at most one connection attempt to the proxy and one to the target;
\* the direct attempt starts only in connect when no proxy is given or in
\* the step in which the proxy attempt failed; once the socket is connected
\* no attempt follows, and a failure (of the direct attempt, the handshake
\* write or the validation) is final.
C4_OneShotFallback == [](C4_Attempts) /\ [][C4_Step]_vars

C4_Witness ==
    proxyAttempts = 1 /\ directAttempts = 1 /\ pc = "failed" /\ err = "connect"

\* w is "CONNECT {remote_host}:{remote_port} HTTP/1.1\r\n\r\n" for tun: the
\* port in decimal with no leading zero
IsConnectRequest(w, tun) ==
    LET h  == tun.remote_host
        d0 == Len(ConnectVerb) + Len(h) + 2
        d1 == Len(w) - Len(ConnectTrailer)
        d  == SubSeq(w, d0, d1)
    IN  /\ d1 >= d0
        /\ SubSeq(w, 1, Len(ConnectVerb)) = ConnectVerb
        /\ SubSeq(w, Len(ConnectVerb) + 1, Len(ConnectVerb) + Len(h)) = h
        /\ w[d0 - 1] = 58
        /\ \A i \in 1..Len(d) : IsDigit(d[i])
        /\ Len(d) > 1 => d[1] # 48
        /\ DigitsValue(d, 0) = tun.remote_port
        /\ SubSeq(w, d1 + 1, Len(w)) = ConnectTrailer

\* C5: once the connection to the given proxy succeeded the stream has
\* is_proxied = TRUE; the bytes written grow with the write position only,
\* and from the end of the handshake on they are exactly the CONNECT
\* request for the tunnel target.
C5_ExactRequest ==
    /\ (proxy = "Some" /\ ~FallbackTaken /\ pc \notin {"start", "connect_proxy"})
           => is_proxied
    /\ is_proxied =>
           /\ proxy = "Some" /\ ~FallbackTaken
           /\ Len(written) = wpos
           /\ (pc \notin {"write", "failed"} \/ (pc = "failed" /\ err # "write"))
                  => IsConnectRequest(written, addr)
           /\ pc = "ready" => handed

C5_Witness ==
    /\ is_proxied /\ pc = "ready" /\ handed
    /\ addr.remote_port = 65535
    /\ IsConnectRequest(written, addr)

\* C6: with no proxy given the stream has is_proxied = FALSE, nothing is
\* written, every poll of the validator completes at once without reading,
\* and what the caller reads starts at the destination's first byte.
C6_DirectNoHandshake ==
    proxy = "None" =>
        /\ ~is_proxied /\ written = <<>> /\ proxyAttempts = 0
        /\ Consumed = 0
        /\ pc = "response" =>
               LET r == poll(stream, is_proxied, status, pos, avail, eof, wire)
               IN  r.out = "Ok" /\ r.pos = pos /\ r.status = "Done"
        /\ pc = "ready" => (handed /\ status = "Done")
        /\ got = SubSeq(wire, 1, Len(got))
        /\ pc # "panicked"
        /\ pc = "failed" => err = "connect"

C6_Witness ==
    proxy = "None" /\ pc = "ready" /\ handed /\ got # <<>> /\ got[1] = wire[1]

\* C7: the operation ends with a stream or with an error and in no other
\* way; a proxied stream is handed over only with the cursor in Done, a
\* status accepted and the consumed bytes ending in CR LF CR LF; with an
\* error no stream is handed over.
C7_StreamOrError ==
    /\ pc \in {"ready", "failed", "panicked"} =>
           \/ pc = "ready" /\ handed /\ err = "none"
           \/ pc = "failed" /\ ~handed /\ err # "none"
    /\ handed => pc = "ready"
    /\ (handed /\ is_proxied) =>
           /\ status = "Done" /\ stream = "None"
           /\ statusEnd >= 0
           /\ ~not_2xx(parse_u16(SubSeq(statusBuf, 10, 12)))
           /\ Consumed >= statusEnd + 4
           /\ SubSeq(wire, Consumed - 3, Consumed) = BlankLine

\* the status field of the 12 bytes the status read delivered, as the code
\* slices and parses it: -1 if it is no number, -2 if offset 9 is inside a
\* character
StatusField ==
    IF ~is_char_boundary(statusBuf, 9) THEN -2
    ELSE parse_u16(SubSeq(statusBuf, 10, 12))

\* C8: when the 12 bytes read as the status prefix decode as text and the
\* bytes at offsets 9..11 are no unsigned decimal number (offset 9 inside a
\* multi-byte character included), validation ends with the error
\* 'Invalid status - not number' and in no other way.
C8_NotANumber ==
    (statusBuf # <<>> /\ from_utf8(statusBuf) /\ StatusField < 0) =>
        /\ pc = "failed"
        /\ err = "Invalid status - not number"
        /\ ~handed
        /\ status = "Started"

\* C9: when the bytes at offsets 9..11 of the 12 bytes read as the status
\* prefix parse to a number outside [200, 300), validation has failed with
\* 'Invalid status - not 2xx', the cursor is still Started, no byte after
\* the prefix was read and no stream is handed over; for a number in
\* [200, 300) the cursor has left Started, and it is HeaderOk as long as no
\* header byte has been read.
C9_StatusRange ==
    (statusBuf # <<>> /\ from_utf8(statusBuf) /\ StatusField >= 0) =>
        IF StatusField < 200 \/ StatusField >= 300
            THEN /\ pc = "failed"
                 /\ err = "Invalid status - not 2xx"
                 /\ status = "Started"
                 /\ Consumed = statusEnd
                 /\ ~handed /\ got = <<>>
            ELSE /\ status # "Started"
                 /\ Consumed >= statusEnd
                 /\ Consumed = statusEnd => status = "HeaderOk"
                 /\ ~(pc = "failed" /\ err = "Invalid status - not 2xx")

C9_Witness ==
    /\ statusBuf = HeadAscii \o <<51, 48, 48>>
    /\ pc = "failed" /\ err = "Invalid status - not 2xx"
    /\ avail > pos

\* the header scan began: a status was accepted
Scanning == statusEnd >= 0 /\ status # "Started"

\* C10: in the header scan a CR that was consumed is followed by LF, or the
\* byte consumed after it ended validation with 'Invalid end of line' and
\* no stream; the cursor rests in FirstCr or SecondCr exactly after a CR.
C10_CrThenLf ==
    Scanning =>
        /\ \A i \in (statusEnd + 1)..(Consumed - 1) :
               (wire[i] = CR /\ wire[i + 1] # LF) =>
                   /\ pc = "failed" /\ err = "Invalid end of line"
                   /\ Consumed = i + 1
                   /\ ~handed
                   /\ status \in {"FirstCr", "SecondCr"}
        /\ (pc = "response" /\ Consumed > statusEnd) =>
               ((status \in {"FirstCr", "SecondCr"}) = (wire[Consumed] = CR))

C10_Witness ==
    /\ pc = "failed" /\ err = "Invalid end of line"
    /\ status = "SecondCr"
    /\ wire[Consumed] = CR

\* C11: a poll of the ConnectResponse after it completed is a no-op: it
\* takes no byte from the socket, leaves the cursor in Done and returns
\* without failing or panicking.
C11_Step ==
    again' # again => (pos' = pos /\ status' = "Done" /\ again' = "Ok")

C11_RepollNoOp == [][C11_Step]_vars

\* the socket was shut down for writing and is still held by the caller
HalfClosed == pc = "ready" /\ "Write" \in shut /\ handles # <<>>

C12_ReadOpen ==
    /\ "Read" \notin shut
    /\ (HalfClosed /\ pos < avail) => ENABLED read

C12_Step ==
    shut' # shut =>
        /\ shut' = shut \cup {"Write"}
        /\ <<wire, avail, eof, pos, got>>' = <<wire, avail, eof, pos, got>>

\* C12: shutdown closes only the write direction of the shared socket: the
\* step leaves the read side (arrived bytes, read cursor, end of stream) as
\* it was, the read direction is never shut, and after it a read through a
\* handle still delivers the bytes that arrived.
C12_ShutdownWriteOnly == [](C12_ReadOpen) /\ [][C12_Step]_vars

C12_Witness ==
    /\ HalfClosed
    /\ Len(handles) = 2
    /\ pos < avail
    /\ got # <<>>

\* C13: the Arc's count is the number of live owners (the caller's handles
\* and the pipeline while it holds the stream); the socket is open exactly
\* while there is an owner and closed once the last one is dropped; after
\* the connect future was dropped before completion there is no owner and
\* the socket, connected or still connecting, is closed.
C13_SharedOwnership ==
    /\ owners = Len(handles) + (IF Holding THEN 1 ELSE 0)
    /\ (sock = "open") = (owners >= 1)
    /\ (sock = "closed") => owners = 0
    /\ (future = "dropped") => (owners = 0 /\ sock = "closed")
    /\ (pc = "ready" /\ handles = <<>>) => sock = "closed"

C13_Witness ==
    /\ pc = "ready" /\ handed /\ is_proxied
    /\ handles = <<>>
    /\ sock = "closed"
    /\ got # <<>>

\* the validator took no byte from the socket and did nothing yet
ValidatorUntouched ==
    pos = 0 /\ statusBuf = <<>> /\ status = "Started" /\ ~handed

\* C14: on a proxied stream the bytes written are at every moment the first
\* wpos bytes of the CONNECT request, each once and in order, whatever the
\* partial writes; while the request is not completely written, and after a
\* write error (which ends connect with that error), the validator has
\* taken no byte of the response; it runs only on the complete request.
C14_WriteThenValidate ==
    is_proxied =>
        LET req == connect_string(TRUE, addr)
        IN  /\ wpos <= Len(req)
            /\ written = SubSeq(req, 1, wpos)
            /\ wpos < Len(req) =>
                   /\ pc = "write" \/ (pc = "failed" /\ err = "write")
                   /\ ValidatorUntouched
            /\ (pc = "failed" /\ err = "write") =>
                   (wpos < Len(req) /\ ValidatorUntouched)
            /\ pc = "write" => ValidatorUntouched
            /\ ~ValidatorUntouched => IsConnectRequest(written, addr)

C14_Witness ==
    /\ is_proxied
    /\ pc = "failed" /\ err = "write"
    /\ wpos = 2 * WriteChunk
    /\ avail > 0

\* the transition table of the header scan as the specification gives it;
\* "error" stands for a CR that no LF follows
TableStep(st, b) ==
    CASE st = "HeaderOk" -> IF b = CR THEN "FirstCr" ELSE "HeaderOk"
      [] st = "FirstCr"  -> IF b = LF THEN "FirstLf" ELSE "error"
      [] st = "FirstLf"  -> IF b = CR THEN "SecondCr" ELSE "HeaderOk"
      [] st = "SecondCr" -> IF b = LF THEN "Done" ELSE "error"
      [] OTHER -> st

\* the table run over the bytes of wire after the status prefix, up to i
RECURSIVE TableCursor(_)
TableCursor(i) ==
    IF i <= statusEnd THEN "HeaderOk"
    ELSE TableStep(TableCursor(i - 1), wire[i])

\* e ends a well-formed header block: after the status prefix every CR
\* before e is followed by LF, and e is the first place where the last
\* four bytes are CR LF CR LF
BlockEndsAt(e) ==
    /\ e - 3 > statusEnd /\ e <= Len(wire)
    /\ SubSeq(wire, e - 3, e) = BlankLine
    /\ \A i \in (statusEnd + 4)..(e - 1) : SubSeq(wire, i - 3, i) # BlankLine
    /\ \A i \in (statusEnd + 1)..(e - 1) : wire[i] = CR => wire[i + 1] = LF

\* C15: the cursor of the header scan follows the transition table (from
\* HeaderOk a CR gives FirstCr and any other byte HeaderOk; from FirstLf a
\* CR gives SecondCr and any other byte HeaderOk); a header block of lines
\* each ended by CR LF is accepted at its blank line; Done is reached only
\* when the last four bytes consumed are CR LF CR LF.
C15_ScanTable ==
    (Scanning /\ is_proxied) =>
        LET c == TableCursor(Consumed)
        IN  /\ pc = "response" => status = c
            /\ (c = "Done") = (status = "Done")
            /\ (c = "error") = (pc = "failed" /\ err = "Invalid end of line")
            /\ status = "Done" =>
                   /\ Consumed - statusEnd >= 4
                   /\ SubSeq(wire, Consumed - 3, Consumed) = BlankLine
                   /\ pc = "ready"
            /\ \A e \in 1..Len(wire) :
                   BlockEndsAt(e) =>
                       /\ Consumed <= e
                       /\ pc \in {"response", "ready"}
                       /\ (Consumed = e) = (pc = "ready")

C15_Witness ==
    /\ pc = "ready" /\ is_proxied
    /\ statusEnd = StatusLen
    /\ Consumed - statusEnd = 11
    /\ BlockEndsAt(Consumed)

\* the ProxyTcpStream was built from the connected socket
WrapperBuilt ==
    /\ pc \notin {"start", "connect_proxy", "connect_direct"}
    /\ ~(pc = "failed" /\ err = "connect")

C16_Flag ==
    /\ WrapperBuilt => (is_proxied = (proxy = "Some" /\ ~FallbackTaken))
    /\ \A h \in 1..Len(handles) : handles[h] = is_proxied

C16_Step == WrapperBuilt => is_proxied' = is_proxied

\* C16: is_proxied is set when the wrapper is built and no step after that
\* changes it (the handshake write, the validator's polls, read, write,
\* shutdown, clone, drop); every handle the caller holds, clones included,
\* carries that value; it is TRUE exactly when the socket is the one of the
\* successful attempt to connect to the proxy.
C16_FlagFixed == [](C16_Flag) /\ [][C16_Step]_vars

C16_Witness ==
    /\ pc = "ready"
    /\ handles = <<TRUE, TRUE>>
    /\ "Write" \in shut
    /\ sent # <<>>
    /\ got # <<>>
    /\ again # "none"

\* the debug-level log events
DebugEvents == {"debug: connecting directly", "debug: connecting via proxy"}

C17_Step ==
    (proxyAttempts' > proxyAttempts \/ directAttempts' > directAttempts) =>
        /\ Len(log') = Len(log) + 1
        /\ log'[Len(log')] \in DebugEvents

\* C17: every step that starts a connection attempt (the direct attempt
\* without a proxy, the proxy attempt, the direct attempt after a failed
\* proxy attempt) emits a debug-level log event for it.
C17_DebugBeforeAttempt == [][C17_Step]_vars

\* the cursor values with an arm of their own in the match of the scan
ScanCursors == {"HeaderOk", "FirstCr", "FirstLf", "SecondCr"}

\* C18: the scan loop never reads a byte with the cursor Started or Done,
\* so its 'Invalid Header' arm is never taken: no poll, first or resumed or
\* after completion, ends with that error, and a suspended validator
\* holds Started with no accepted status yet or one of the four scan
\* cursors after it.
C18_NoInvalidHeader ==
    /\ err # "Invalid Header"
    /\ again # "Err"
    /\ (pc = "response" /\ is_proxied) =>
           /\ statusEnd = -1 => status = "Started"
           /\ status # "Started" => status \in ScanCursors
           /\ poll(stream, is_proxied, status, pos, avail, eof, wire).err
                  # "Invalid Header"
    /\ (status = "Done" /\ is_proxied) => (pc = "ready" /\ stream = "None")

C18_Witness ==
    /\ pc = "response" /\ is_proxied
    /\ status = "SecondCr"
    /\ Consumed = statusEnd + 3
    /\ avail > pos

\* the proxy's reply is a well-formed 2xx response and all of it has
\* arrived at the socket, in whatever chunks
ReplyDelivered == is_proxied /\ WellFormedReply(wire) /\ avail = Len(wire)

\* C19: once the handshake is written on a proxied stream and the proxy
\* has delivered a complete well-formed 2xx response, in any chunking,
\* connect completes with a stream (unless its future is dropped).
C19_Completes ==
    (pc = "response" /\ ReplyDelivered)
        ~> ((pc = "ready" /\ handed) \/ future = "dropped")

\* C20: on a proxied stream whose peer has closed, a poll of the validator
\* never stays pending: it ends with a stream only if the bytes it consumed
\* end with CR LF CR LF, and with UnexpectedEof when the 12-byte status read
\* or the header scan, in whatever cursor state, runs out of bytes (a panic
\* needs a complete 12-byte prefix, so it is no end-of-stream case); a
\* stream is never handed over before the terminator was consumed.
C20_EofIsError ==
    is_proxied =>
        /\ (pc = "response" /\ eof) =>
               LET r == poll(stream, is_proxied, status, pos, avail, eof, wire)
               IN  /\ r.out \in {"Ok", "Err", "Panic"}
                   /\ r.out = "Panic" => r.buf # <<>>
                   /\ r.out = "Ok" =>
                          SubSeq(wire, r.pos - 3, r.pos) = BlankLine
                   /\ (status = "Started" /\ avail - pos < StatusLen) =>
                          (r.out = "Err" /\ r.err = "UnexpectedEof")
                   /\ (status \in ScanCursors /\ pos = avail) =>
                          /\ r.out = "Err" /\ r.err = "UnexpectedEof"
                          /\ r.status = status
        /\ handed =>
               /\ Consumed >= statusEnd + 4
               /\ SubSeq(wire, Consumed - 3, Consumed) = BlankLine
        /\ (pc = "failed" /\ err = "UnexpectedEof") =>
               (eof /\ pos = Len(wire) /\ ~handed)

C20_Witness ==
    /\ is_proxied
    /\ pc = "failed" /\ err = "UnexpectedEof"
    /\ status = "FirstLf"
    /\ Consumed > statusEnd

====
